---- MODULE Spec2Model ----
(***************************************************************************)
(* Model of src/usbInterface.c: a TinyUSB vendor-class driver with one     *)
(* bulk-IN and one bulk-OUT endpoint.  The driver's statics are the state; *)
(* the USB device stack is the environment: the set of endpoints it has    *)
(* open, the transfers it holds in flight, and the results of the calls    *)
(* the driver makes into it (drawn nondeterministically).                  *)
(***************************************************************************)
EXTENDS Integers, Sequences, FiniteSets, TLC

\* ---------------------------------------------------------------- constants
BULK_BUFLEN_OUT == 64
CTRL_REQ_BUF_SIZE == 256
PACKET_SIZE == 64
TUSB_CLASS_VENDOR_SPECIFIC == 255
SIZEOF_DESC_INTERFACE == 9
SIZEOF_DESC_ENDPOINT == 7
EP_PAIR_COUNT == 2
CONTROL_STAGE_SETUP == 1
TUSB_REQ_GET_STATUS == 0
TUSB_REQ_TYPE_STANDARD == 0
TUSB_REQ_RCPT_INTERFACE == 1
TUSB_DIR_IN == 1
XFER_RESULT_SUCCESS == 0
STATUS_LEN == 2
DIR_IN_MASK == 128
UINT16_MOD == 65536

\* ------------------------------------------------------------- input domains
NULL == "NULL"
Handlers == {NULL, "h1"}
Buffers == {"b1", "b2"}
SendLens == {0, 64, 10}
XferLens == {0, 10}
Results == {XFER_RESULT_SUCCESS, 1}      \* SUCCESS, FAILED
Classes == {TUSB_CLASS_VENDOR_SPECIFIC, 3}
NumEndpoints == 1..3
MaxLens == {16, 23}
\* the two endpoint descriptors following the interface descriptor: one
\* bulk OUT and one bulk IN address, in either order
DescPairs == {<<1, 129>>, <<129, 1>>, <<2, 130>>}
Stages == 0..3
Requests == {TUSB_REQ_GET_STATUS, 1, 6}
ReqTypes == 0..2
Recipients == 0..2
Directions == {0, 1}
WLengths == {0, 1, 2, 3, 256, 300, 65535}

VARIABLES
    bulk_in,            \* _bulk_in
    bulk_out,           \* _bulk_out
    g_opened,
    g_busy,
    g_usbOutCallback,
    ctrl_req_buf,       \* first two bytes of _ctrl_req_buf
    NDEBUG,             \* whether assert() is compiled out
    aborted,            \* assert() failed: the program has stopped
    edpt_open,          \* stack: endpoint addresses currently open
    in_flight,          \* stack: transfers accepted and not yet completed
    last,               \* the entry point invoked last, with its arguments
    calls,              \* calls that invocation made, in order
    ret,                \* its return value (bool as 1/0, -1 = aborted)
    reset_seen,         \* history: the reset entry point has been called
    send                \* where a trySend that can be preempted stands

vars == <<bulk_in, bulk_out, g_opened, g_busy, g_usbOutCallback, ctrl_req_buf,
          NDEBUG, aborted, edpt_open, in_flight, last, calls, ret, reset_seen,
          send>>

\* ------------------------------------------------------------------ helpers
tu_min16(a, b) == IF a < b THEN a ELSE b

B2I(b) == IF b THEN 1 ELSE 0

\* one call out of the driver, with the value g_opened had when it was made
Call(fn, ep, buf, len, opened) ==
    [fn |-> fn, ep |-> ep, buf |-> buf, len |-> len, opened |-> opened]

Xfer(ep, buf, len, by) == [ep |-> ep, buf |-> buf, len |-> len, by |-> by]

RemoveAt(s, i) == [j \in 1..(Len(s) - 1) |-> IF j < i THEN s[j] ELSE s[j + 1]]

\* usbd_edpt_xfer(rhport, ep, buf, len) issued from state s; ok is the
\* stack's answer.  An accepted transfer is in flight until its completion.
usbd_edpt_xfer(s, ep, buf, len, by, ok) ==
    [s EXCEPT !.calls = Append(@, Call("usbd_edpt_xfer", ep, buf, len, s.g_opened)),
              !.in_flight = IF ok THEN Append(@, Xfer(ep, buf, len, by)) ELSE @]

\* usbd_edpt_close(rhport, ep): the stack closes the endpoint and drops the
\* transfer pending on it.
usbd_edpt_close(s, ep) ==
    [s EXCEPT !.calls = Append(@, Call("usbd_edpt_close", ep, "-", 0, s.g_opened)),
              !.edpt_open = @ \ {ep},
              !.in_flight = SelectSeq(@, LAMBDA t : t.ep # ep)]

\* faulty variant: the id is cleared without closing the endpoint
usbinterface_disable_endpoint_NoClose(s, which) ==
    IF s[which] # 0
    THEN [s EXCEPT !.g_opened = FALSE, ![which] = 0]
    ELSE s

\* usbinterface_disable_endpoint(rhport, &_bulk_in / &_bulk_out)
usbinterface_disable_endpoint(s, which) ==
    IF s[which] # 0
    THEN [usbd_edpt_close([s EXCEPT !.g_opened = FALSE], s[which])
              EXCEPT ![which] = 0]
    ELSE s

\* usbd_open_edpt_pair(rhport, p_desc, 2, TUSB_XFER_BULK, &_bulk_out, &_bulk_in):
\* opens the descriptors in order and stores each address by its direction;
\* nOpened is how many the stack opened before one failed (2 = success).
RECURSIVE OpenEndpoints(_, _, _, _)
OpenEndpoints(s, desc, i, nOpened) ==
    IF i > nOpened THEN s
    ELSE LET addr == desc[i]
             which == IF addr >= DIR_IN_MASK THEN "bulk_in" ELSE "bulk_out"
         IN OpenEndpoints([s EXCEPT !.edpt_open = @ \cup {addr}, ![which] = addr],
                          desc, i + 1, nOpened)

usbd_open_edpt_pair(s, desc, nOpened) ==
    OpenEndpoints([s EXCEPT !.calls = Append(@, Call("usbd_open_edpt_pair", 0, "desc",
                                                     EP_PAIR_COUNT, s.g_opened))],
                  desc, 1, nOpened)

\* the part of the state the open path works on
Snapshot ==
    [g_opened |-> g_opened, bulk_in |-> bulk_in, bulk_out |-> bulk_out,
     edpt_open |-> edpt_open, in_flight |-> in_flight, calls |-> <<>>]

\* no trySend is under way
SendIdle == [pc |-> "idle", buffer |-> "-", length |-> 0]

\* ------------------------------------------------------------------ initial
Init ==
    /\ bulk_in = 0
    /\ bulk_out = 0
    /\ g_opened = FALSE
    /\ g_busy = FALSE
    /\ g_usbOutCallback = NULL
    /\ ctrl_req_buf = <<0, 0>>
    /\ NDEBUG \in BOOLEAN
    /\ aborted = FALSE
    /\ edpt_open = {}
    /\ in_flight = <<>>
    /\ last = [op |-> "init"]
    /\ calls = <<>>
    /\ ret = 0
    /\ reset_seen = FALSE
    /\ send = SendIdle

\* ---------------------------------------------------------------- send path
\* faulty variant: the busy flag is not consulted
SendReady_IgnoreBusy == g_opened

\* line 53: "only send when driver is ready"
SendReady == g_opened /\ ~g_busy

\* faulty variant: g_busy is set only once the stack has taken the transfer
usbInterfaceSendBuffer_BusyAfterSubmit(buffer, length, ok) ==
    /\ ~aborted
    /\ send.pc = "idle"
    /\ last' = [op |-> "trySend", buffer |-> buffer, length |-> length]
    /\ IF SendReady
       THEN IF length % PACKET_SIZE # 0 /\ ~NDEBUG
            THEN /\ aborted' = TRUE
                 /\ calls' = <<>>
                 /\ ret' = -1
                 /\ UNCHANGED <<g_busy, in_flight>>
            ELSE LET s == usbd_edpt_xfer([Snapshot EXCEPT !.calls = <<>>],
                                         bulk_in, buffer, length, "send", ok)
                 IN /\ g_busy' = ok
                    /\ calls' = s.calls
                    /\ in_flight' = s.in_flight
                    /\ ret' = B2I(ok)
                    /\ UNCHANGED aborted
       ELSE /\ ret' = 0
            /\ calls' = <<>>
            /\ UNCHANGED <<g_busy, aborted, in_flight>>
    /\ UNCHANGED <<bulk_in, bulk_out, g_opened, g_usbOutCallback, ctrl_req_buf,
                   NDEBUG, edpt_open, reset_seen, send>>

\* usbInterfaceSendBuffer(buffer, length); ok is the stack's answer to the
\* transfer submission.  A failed assert() stops the program (g_busy is
\* already set); a failed TU_ASSERT returns false.
usbInterfaceSendBuffer(buffer, length, ok) ==
    /\ ~aborted
    /\ send.pc = "idle"
    /\ last' = [op |-> "trySend", buffer |-> buffer, length |-> length]
    /\ IF SendReady
       THEN IF length % PACKET_SIZE # 0 /\ ~NDEBUG
            THEN /\ g_busy' = TRUE
                 /\ aborted' = TRUE
                 /\ calls' = <<>>
                 /\ ret' = -1
                 /\ UNCHANGED in_flight
            ELSE LET s == usbd_edpt_xfer([Snapshot EXCEPT !.calls = <<>>],
                                         bulk_in, buffer, length, "send", ok)
                 IN /\ g_busy' = TRUE
                    /\ calls' = s.calls
                    /\ in_flight' = s.in_flight
                    /\ ret' = B2I(ok)
                    /\ UNCHANGED aborted
       ELSE /\ ret' = 0
            /\ calls' = <<>>
            /\ UNCHANGED <<g_busy, aborted, in_flight>>
    /\ UNCHANGED <<bulk_in, bulk_out, g_opened, g_usbOutCallback, ctrl_req_buf,
                   NDEBUG, edpt_open, reset_seen, send>>

\* usbInterfaceSendBuffer in application context, where the stack's
\* callbacks (open, reset, transfer completion) run in interrupt context
\* and may preempt it: g_opened and g_busy are volatile but unguarded, so
\* the function is three steps.
\* line 53: read g_opened and g_busy
SendCheck(buffer, length) ==
    /\ ~aborted
    /\ send.pc = "idle"
    /\ calls' = <<>>
    /\ ret' = 0
    /\ IF SendReady
       THEN /\ send' = [pc |-> "ready", buffer |-> buffer, length |-> length]
            /\ last' = [op |-> "trySend:check", buffer |-> buffer, length |-> length]
       ELSE /\ send' = SendIdle
            /\ last' = [op |-> "trySend", buffer |-> buffer, length |-> length]
    /\ UNCHANGED <<bulk_in, bulk_out, g_opened, g_busy, g_usbOutCallback,
                   ctrl_req_buf, NDEBUG, aborted, edpt_open, in_flight, reset_seen>>

\* lines 55-56: g_busy = true, then the assert on the length
SendSetBusy ==
    /\ ~aborted
    /\ send.pc = "ready"
    /\ g_busy' = TRUE
    /\ calls' = <<>>
    /\ last' = [op |-> "trySend:busy", buffer |-> send.buffer, length |-> send.length]
    /\ IF send.length % PACKET_SIZE # 0 /\ ~NDEBUG
       THEN /\ aborted' = TRUE
            /\ ret' = -1
            /\ send' = SendIdle
       ELSE /\ ret' = 0
            /\ send' = [send EXCEPT !.pc = "busy_set"]
            /\ UNCHANGED aborted
    /\ UNCHANGED <<bulk_in, bulk_out, g_opened, g_usbOutCallback, ctrl_req_buf,
                   NDEBUG, edpt_open, in_flight, reset_seen>>

\* lines 57-58: read _bulk_in and submit the transfer
SendSubmit(ok) ==
    /\ ~aborted
    /\ send.pc = "busy_set"
    /\ LET s == usbd_edpt_xfer([Snapshot EXCEPT !.calls = <<>>], bulk_in,
                               send.buffer, send.length, "send", ok)
       IN /\ calls' = s.calls
          /\ in_flight' = s.in_flight
    /\ ret' = B2I(ok)
    /\ last' = [op |-> "trySend", buffer |-> send.buffer, length |-> send.length]
    /\ send' = SendIdle
    /\ UNCHANGED <<bulk_in, bulk_out, g_opened, g_busy, g_usbOutCallback,
                   ctrl_req_buf, NDEBUG, aborted, edpt_open, reset_seen>>

\* usbInterfaceRegisterCallback(callback)
usbInterfaceRegisterCallback(callback) ==
    /\ ~aborted
    /\ send.pc = "idle"
    /\ g_usbOutCallback' = callback
    /\ last' = [op |-> "register", callback |-> callback]
    /\ calls' = <<>>
    /\ ret' = 0
    /\ UNCHANGED <<bulk_in, bulk_out, g_opened, g_busy, ctrl_req_buf, NDEBUG,
                   aborted, edpt_open, in_flight, reset_seen, send>>

\* ------------------------------------------------------------------- reset
\* usbinterface_reset(rhport) only logs.  It is called on a bus reset, at
\* which the stack has closed every endpoint and dropped every transfer;
\* stuck_send records that an outbound transfer was among those dropped.
usbinterface_reset ==
    /\ ~aborted
    /\ last' = [op |-> "reset",
                stuck_send |-> \E i \in DOMAIN in_flight : in_flight[i].by = "send"]
    /\ calls' = <<>>
    /\ ret' = 0
    /\ edpt_open' = {}
    /\ in_flight' = <<>>
    /\ reset_seen' = TRUE
    /\ UNCHANGED <<bulk_in, bulk_out, g_opened, g_busy, g_usbOutCallback,
                   ctrl_req_buf, NDEBUG, aborted, send>>

\* -------------------------------------------------------------------- open
\* line 105: uint16_t const len
RequiredLen(bNumEndpoints) ==
    (SIZEOF_DESC_INTERFACE + bNumEndpoints * SIZEOF_DESC_ENDPOINT) % UINT16_MOD

\* faulty variant: the length check is missing
OfferValid_ClassOnly(bInterfaceClass, bNumEndpoints, max_len) ==
    TUSB_CLASS_VENDOR_SPECIFIC = bInterfaceClass

\* lines 103 and 106: the two TU_VERIFY checks
OfferValid(bInterfaceClass, bNumEndpoints, max_len) ==
    /\ TUSB_CLASS_VENDOR_SPECIFIC = bInterfaceClass
    /\ max_len >= RequiredLen(bNumEndpoints)

\* faulty variant: g_opened is set before the first receive request is submitted
OpenBind_OpenedFirst(s0, len, desc, nOpened, ok) ==
    LET s1 == usbinterface_disable_endpoint(s0, "bulk_in")
        s2 == usbinterface_disable_endpoint(s1, "bulk_out")
        s3 == usbd_open_edpt_pair(s2, desc, nOpened)
        s4 == usbd_edpt_xfer([s3 EXCEPT !.g_opened = TRUE], s3.bulk_out,
                             "_bulk_out_buf", BULK_BUFLEN_OUT, "recv", ok)
    IN IF nOpened < EP_PAIR_COUNT THEN [s |-> s3, ret |-> 0]
       ELSE IF ~ok THEN [s |-> [s4 EXCEPT !.g_opened = s3.g_opened], ret |-> 0]
       ELSE [s |-> s4, ret |-> len]

\* lines 108-120, from a validated offer: the state reached and the value
\* returned.  nOpened and ok are the stack's answers to the endpoint claim
\* and to the first receive submission.
OpenBind(s0, len, desc, nOpened, ok) ==
    LET s1 == usbinterface_disable_endpoint(s0, "bulk_in")
        s2 == usbinterface_disable_endpoint(s1, "bulk_out")
        s3 == usbd_open_edpt_pair(s2, desc, nOpened)
        s4 == usbd_edpt_xfer(s3, s3.bulk_out, "_bulk_out_buf", BULK_BUFLEN_OUT,
                             "recv", ok)
    IN IF nOpened < EP_PAIR_COUNT THEN [s |-> s3, ret |-> 0]
       ELSE IF ~ok THEN [s |-> s4, ret |-> 0]
       ELSE [s |-> [s4 EXCEPT !.g_opened = TRUE], ret |-> len]

usbinterface_open(bInterfaceClass, bNumEndpoints, max_len, desc, nOpened, ok) ==
    /\ ~aborted
    /\ LET valid == OfferValid(bInterfaceClass, bNumEndpoints, max_len)
           r == IF valid
                THEN OpenBind(Snapshot, RequiredLen(bNumEndpoints), desc, nOpened, ok)
                ELSE [s |-> Snapshot, ret |-> 0]
       IN /\ last' = [op |-> "open", bInterfaceClass |-> bInterfaceClass,
                      bNumEndpoints |-> bNumEndpoints, max_len |-> max_len,
                      claimed |-> valid /\ nOpened = EP_PAIR_COUNT,
                      armed |-> valid /\ nOpened = EP_PAIR_COUNT /\ ok]
          /\ g_opened' = r.s.g_opened
          /\ bulk_in' = r.s.bulk_in
          /\ bulk_out' = r.s.bulk_out
          /\ edpt_open' = r.s.edpt_open
          /\ in_flight' = r.s.in_flight
          /\ calls' = r.s.calls
          /\ ret' = r.ret
    /\ UNCHANGED <<g_busy, g_usbOutCallback, ctrl_req_buf, NDEBUG, aborted,
                   reset_seen, send>>

\* ------------------------------------------------------ transfer completion
\* faulty variant: a zero-length packet is not handed on
Deliver_SkipZlp(s, xferred_bytes) ==
    IF g_usbOutCallback # NULL /\ xferred_bytes # 0
    THEN [s EXCEPT !.calls = Append(@, Call("g_usbOutCallback", 0, "_bulk_out_buf",
                                            xferred_bytes, s.g_opened))]
    ELSE s

\* lines 170-173: hand the received length to the registered handler
Deliver(s, xferred_bytes) ==
    IF g_usbOutCallback # NULL
    THEN [s EXCEPT !.calls = Append(@, Call("g_usbOutCallback", 0, "_bulk_out_buf",
                                            xferred_bytes, s.g_opened))]
    ELSE s

\* faulty variant: the re-arming sits inside the handler check
Rearm_OnlyWithHandler(s, ok) ==
    IF g_usbOutCallback # NULL
    THEN usbd_edpt_xfer(s, bulk_out, "_bulk_out_buf", BULK_BUFLEN_OUT, "recv", ok)
    ELSE s

\* line 174: re-arm the receive buffer
Rearm(s, ok) ==
    usbd_edpt_xfer(s, bulk_out, "_bulk_out_buf", BULK_BUFLEN_OUT, "recv", ok)

\* line 178
ClearBusy == FALSE

\* faulty variant: the result is not looked at
ResultOk_Any(result) == TRUE

\* line 163: TU_VERIFY(result == XFER_RESULT_SUCCESS)
ResultOk(result) == result = XFER_RESULT_SUCCESS

\* usbinterface_xfer_cb(rhport, ep_addr, result, xferred_bytes) for the
\* i-th transfer in flight, which the stack thereby completes; ok is the
\* stack's answer to the re-arming submission.
usbinterface_xfer_cb(i, result, xferred_bytes, ok) ==
    /\ ~aborted
    /\ i \in 1..Len(in_flight)
    /\ xferred_bytes <= in_flight[i].len
    /\ LET ep_addr == in_flight[i].ep
           s0 == [Snapshot EXCEPT !.in_flight = RemoveAt(@, i)]
       IN /\ last' = [op |-> "xfer_cb", ep_addr |-> ep_addr, result |-> result,
                      xferred_bytes |-> xferred_bytes, by |-> in_flight[i].by]
          /\ IF ~ResultOk(result)
             THEN /\ ret' = 0
                  /\ calls' = <<>>
                  /\ in_flight' = s0.in_flight
                  /\ UNCHANGED g_busy
             ELSE IF ep_addr = bulk_out
             THEN LET s1 == Deliver(s0, xferred_bytes)
                      s2 == Rearm(s1, ok)
                  IN /\ calls' = s2.calls
                     /\ in_flight' = s2.in_flight
                     /\ ret' = B2I(ok)
                     /\ UNCHANGED g_busy
             ELSE IF ep_addr = bulk_in
             THEN /\ g_busy' = ClearBusy
                  /\ ret' = 1
                  /\ calls' = <<>>
                  /\ in_flight' = s0.in_flight
             ELSE /\ ret' = 0
                  /\ calls' = <<>>
                  /\ in_flight' = s0.in_flight
                  /\ UNCHANGED g_busy
    /\ UNCHANGED <<bulk_in, bulk_out, g_opened, g_usbOutCallback, ctrl_req_buf,
                   NDEBUG, aborted, edpt_open, reset_seen, send>>

\* ---------------------------------------------------------- control request
\* faulty variant: the direction is not checked
StatusQuery_AnyDirection(type, recipient, direction) ==
    /\ type = TUSB_REQ_TYPE_STANDARD
    /\ recipient = TUSB_REQ_RCPT_INTERFACE

\* lines 140-142: the status query this driver answers
StatusQuery(type, recipient, direction) ==
    /\ type = TUSB_REQ_TYPE_STANDARD
    /\ recipient = TUSB_REQ_RCPT_INTERFACE
    /\ direction = TUSB_DIR_IN

\* faulty variant: the reply is clamped to the buffer size only
ResponseLen_BufferOnly(reqLength) == tu_min16(reqLength % UINT16_MOD, CTRL_REQ_BUF_SIZE)

\* lines 125 and 147: the length of the status reply
ResponseLen(reqLength) ==
    tu_min16(tu_min16(reqLength % UINT16_MOD, CTRL_REQ_BUF_SIZE), STATUS_LEN)

\* usbinterface_control_xfer_cb(rhport, stage, req); ok is what
\* tud_control_xfer returns.
usbinterface_control_xfer_cb(stage, bRequest, type, recipient, direction, reqLength, ok) ==
    /\ ~aborted
    /\ last' = [op |-> "control", stage |-> stage, bRequest |-> bRequest,
                type |-> type, recipient |-> recipient, direction |-> direction,
                wLength |-> reqLength]
    /\ IF stage # CONTROL_STAGE_SETUP
       THEN /\ ret' = 1
            /\ calls' = <<>>
            /\ UNCHANGED ctrl_req_buf
       ELSE IF bRequest = TUSB_REQ_GET_STATUS
       THEN IF ~StatusQuery(type, recipient, direction)
            THEN /\ ret' = 0
                 /\ calls' = <<>>
                 /\ UNCHANGED ctrl_req_buf
            ELSE /\ ctrl_req_buf' = <<0, 0>>
                 /\ calls' = <<Call("tud_control_xfer", 0, "_ctrl_req_buf",
                                    ResponseLen(reqLength), g_opened)>>
                 /\ ret' = B2I(ok)
       ELSE /\ ret' = 0
            /\ calls' = <<>>
            /\ UNCHANGED ctrl_req_buf
    /\ UNCHANGED <<bulk_in, bulk_out, g_opened, g_busy, g_usbOutCallback, NDEBUG,
                   aborted, edpt_open, in_flight, reset_seen, send>>

\* ----------------------------------------------------------- specification
\* The stack's answers are drawn only where the open path asks for them.
ClaimAnswers(valid) == IF valid THEN 0..EP_PAIR_COUNT ELSE {0}
ArmAnswers(nOpened) == IF nOpened = EP_PAIR_COUNT THEN BOOLEAN ELSE {FALSE}

Next ==
    \/ \E b \in Buffers, n \in SendLens, ok \in BOOLEAN :
           usbInterfaceSendBuffer(b, n, ok)
    \/ \E cb \in Handlers : usbInterfaceRegisterCallback(cb)
    \/ usbinterface_reset
    \/ \E c \in Classes, n \in NumEndpoints, m \in MaxLens, d \in DescPairs :
         \E k \in ClaimAnswers(OfferValid(c, n, m)) : \E ok \in ArmAnswers(k) :
           usbinterface_open(c, n, m, d, k, ok)
    \/ \E i \in 1..Len(in_flight), r \in Results, x \in XferLens, ok \in BOOLEAN :
           usbinterface_xfer_cb(i, r, x, ok)

Spec == Init /\ [][Next]_vars

\* The stack completes every outbound transfer it holds in flight, with
\* whatever result.
SendCompletion ==
    \E i \in DOMAIN in_flight, r \in Results, x \in XferLens, ok \in BOOLEAN :
        /\ in_flight[i].by = "send"
        /\ usbinterface_xfer_cb(i, r, x, ok)

SpecSendFair == Spec /\ WF_vars(SendCompletion)

\* trySend in application context, preempted by the stack's callbacks
NextPreempt ==
    \/ \E b \in Buffers, n \in SendLens : SendCheck(b, n)
    \/ SendSetBusy
    \/ \E ok \in BOOLEAN : SendSubmit(ok)
    \/ \E cb \in Handlers : usbInterfaceRegisterCallback(cb)
    \/ usbinterface_reset
    \/ \E c \in Classes, n \in NumEndpoints, m \in MaxLens, d \in DescPairs :
         \E k \in ClaimAnswers(OfferValid(c, n, m)) : \E ok \in ArmAnswers(k) :
           usbinterface_open(c, n, m, d, k, ok)
    \/ \E i \in 1..Len(in_flight), r \in Results, x \in XferLens, ok \in BOOLEAN :
           usbinterface_xfer_cb(i, r, x, ok)

SpecPreempt == Init /\ [][NextPreempt]_vars

\* The control-request callback reads and writes none of the data path's
\* state, so its requests are explored in a specification of their own.
NextControl ==
    \E st \in Stages, rq \in Requests, ty \in ReqTypes, rc \in Recipients,
       dr \in Directions, wl \in WLengths, ok \in BOOLEAN :
        usbinterface_control_xfer_cb(st, rq, ty, rc, dr, wl, ok)

SpecControl == Init /\ [][NextControl]_vars

\* ================================================================== claims
SendsInFlight == {i \in DOMAIN in_flight : in_flight[i].by = "send"}

ReceivesArmed ==
    {i \in DOMAIN in_flight : in_flight[i] = Xfer(bulk_out, "_bulk_out_buf",
                                                  BULK_BUFLEN_OUT, "recv")}

CallsTo(fn) == {i \in DOMAIN calls : calls[i].fn = fn}

\* C1: at most one outbound transfer submitted by trySend is in flight at any
\* time, and a trySend called while busy is rejected and submits no transfer.
C1_AtMostOneSend ==
    /\ [](Cardinality(SendsInFlight) <= 1)
    /\ [][(last'.op = "trySend" /\ g_busy)
            => (ret' = 0 /\ calls' = <<>> /\ in_flight' = in_flight)]_vars

C1_Witness ==
    /\ last.op = "trySend"
    /\ ret = 0
    /\ g_opened
    /\ g_busy
    /\ Cardinality(SendsInFlight) = 1

\* a trySend step whose length is a multiple of 64
SendStep == last'.op = "trySend" /\ last'.length % 64 = 0

SendSubmitted ==
    in_flight' = Append(in_flight, Xfer(bulk_in, last'.buffer, last'.length, "send"))

BulkInCompletion == last'.op = "xfer_cb" /\ last'.ep_addr = bulk_in

C3_ReceiveArmedWhileOpen ==
    (g_opened /\ ~reset_seen) => Cardinality(ReceivesArmed) = 1

\* a successful completion on the bound bulkOut endpoint was just handled
OutCompletion ==
    /\ last.op = "xfer_cb"
    /\ last.result = XFER_RESULT_SUCCESS
    /\ last.ep_addr = bulk_out

\* C4: every successful completion on the bound bulkOut endpoint, of any
\* length and with or without a handler, submits exactly one new receive
\* request of 64 bytes on bulkOut.
C4_CompletionRearms ==
    OutCompletion =>
        /\ Cardinality(CallsTo("usbd_edpt_xfer")) = 1
        /\ calls[Len(calls)] = Call("usbd_edpt_xfer", bulk_out, "_bulk_out_buf",
                                    64, g_opened)

C4_Witness ==
    /\ OutCompletion
    /\ last.xferred_bytes = 0
    /\ g_usbOutCallback = NULL
    /\ Cardinality(CallsTo("usbd_edpt_xfer")) = 1

\* C5: while a handler is registered, each successful bulkOut completion is
\* handed to it exactly once, with its byte count (0 included), within the
\* completion's own callback and before the buffer is re-armed; no other
\* step invokes the handler.  The lengths the handler sees are therefore the
\* completions' byte counts, in completion order.
C5_HandlerSeesEveryLength ==
    /\ (OutCompletion /\ g_usbOutCallback # NULL) =>
           /\ CallsTo("g_usbOutCallback") = {1}
           /\ calls[1].buf = "_bulk_out_buf"
           /\ calls[1].len = last.xferred_bytes
    /\ ~OutCompletion => CallsTo("g_usbOutCallback") = {}

C5_Witness ==
    /\ g_usbOutCallback # NULL
    /\ OutCompletion
    /\ last.xferred_bytes = 0
    /\ calls[1] = Call("g_usbOutCallback", 0, "_bulk_out_buf", 0, TRUE)

\* C6: busy is true only if opened is true.
C6_BusyOnlyIfOpened == g_busy => g_opened

\* an open step whose offer has another class, or too small a max_len
DeclinedOffer ==
    /\ last'.op = "open"
    /\ \/ last'.bInterfaceClass # 255
       \/ last'.max_len < 9 + last'.bNumEndpoints * 7

\* C7: an open with a non-vendor class or too small a max_len returns 0,
\* leaves opened, busy, bulkIn and bulkOut unchanged, and makes no call into
\* the stack.
C7_ValidationBeforeMutation ==
    [][DeclinedOffer =>
          /\ ret' = 0
          /\ calls' = <<>>
          /\ UNCHANGED <<g_opened, g_busy, bulk_in, bulk_out, edpt_open, in_flight>>]_vars

C7_Witness ==
    /\ last.op = "open"
    /\ last.bInterfaceClass = 255
    /\ last.max_len < 9 + last.bNumEndpoints * 7
    /\ g_opened
    /\ bulk_in # 0
    /\ ret = 0

C9_ResetClears ==
    last.op = "reset" => (~g_opened /\ bulk_in = 0 /\ bulk_out = 0)

\* the request this driver answers
Recognised ==
    /\ last.stage = 1
    /\ last.bRequest = 0
    /\ last.type = 0
    /\ last.recipient = 1
    /\ last.direction = 1

\* C10: the control callback initiates a response exactly for a setup-stage
\* standard, interface, device-to-host GET_STATUS; every other stage returns
\* true and every other setup-stage request returns false, without response.
C10_ControlDispatch ==
    last.op = "control" =>
        /\ (CallsTo("tud_control_xfer") # {}) <=> Recognised
        /\ last.stage # 1 => ret = 1
        /\ (last.stage = 1 /\ ~Recognised) => ret = 0

C10_Witness ==
    /\ last.op = "control"
    /\ Recognised
    /\ Len(calls) = 1
    /\ calls[1].fn = "tud_control_xfer"

\* C11: whenever trySend returns rejected it has put no transfer in flight
\* and has left busy and opened as they were before the call.
C11_RejectedChangesNothing ==
    [][(last'.op = "trySend" /\ ret' = 0)
          => (in_flight' = in_flight /\ g_busy' = g_busy /\ g_opened' = g_opened)]_vars

\* C12: a completion callback with a non-success result returns not-ok and
\* does not invoke the receive handler; the handler is invoked only for a
\* successful completion on the bound bulkOut endpoint.
C12_FailedCompletionNotDelivered ==
    /\ (last.op = "xfer_cb" /\ last.result # XFER_RESULT_SUCCESS) =>
           (ret = 0 /\ CallsTo("g_usbOutCallback") = {})
    /\ CallsTo("g_usbOutCallback") # {} =>
           (last.op = "xfer_cb" /\ last.result = XFER_RESULT_SUCCESS
               /\ last.ep_addr = bulk_out /\ bulk_out # 0)

C12_Witness ==
    /\ last.op = "xfer_cb"
    /\ last.result # XFER_RESULT_SUCCESS
    /\ last.ep_addr = bulk_out
    /\ g_usbOutCallback # NULL
    /\ ret = 0
    /\ calls = <<>>

\* C13: when an accepted outbound transfer never completes, a bus reset
\* followed by a successful open leaves the driver idle (busy = false).
C13_ResetThenOpenIsIdle ==
    [][(last.op = "reset" /\ last.stuck_send /\ last'.op = "open" /\ last'.armed)
          => ~g_busy']_vars

\* the stack dropped the outbound transfer without completing it (the
\* endpoint was closed by an open, or the bus was reset)
SendDropped == last.op \in {"reset", "open"} /\ SendsInFlight = {}

\* C14: if the stack completes every outbound transfer it accepted, with
\* whatever result, every accepted trySend is eventually followed by a state
\* with busy = false in which a new trySend can be accepted.
C14_SendSlotFreed ==
    [](((last.op = "trySend" /\ ret = 1))
          => <>((~g_busy /\ g_opened) \/ SendDropped))

Bound == {bulk_in, bulk_out} \ {0}

OpenFailedLate ==
    /\ last.op = "open"
    /\ last.bInterfaceClass = 255
    /\ last.max_len >= 9 + last.bNumEndpoints * 7
    /\ ~last.armed

\* C16: opened is true exactly when both bulkIn and bulkOut are bound, and
\* an open that fails at the endpoint claim or at the first receive
\* submission returns 0 with opened = false and no endpoint bound.
C16_OpenedIffBound ==
    /\ g_opened <=> (bulk_in # 0 /\ bulk_out # 0)
    /\ OpenFailedLate => (ret = 0 /\ ~g_opened /\ bulk_in = 0 /\ bulk_out = 0)

\* C17: busy is true exactly when one outbound transfer submitted by trySend
\* is in flight in the stack.
C17_BusyIffSendInFlight == g_busy <=> Cardinality(SendsInFlight) = 1

\* C18: whenever open reaches the claim of the two endpoint descriptors, the
\* offer declared two endpoints and its max_len covers the interface
\* descriptor and both endpoint descriptors.
C18_ClaimWithinValidated ==
    (last.op = "open" /\ CallsTo("usbd_open_edpt_pair") # {}) =>
        (last.bNumEndpoints = 2 /\ last.max_len >= 9 + 2 * 7)

\* C19: for a recognised status query the length handed to the control
\* response is min(wLength, 2), and the first two bytes of the control
\* scratch buffer are 0.
C19_StatusReplyLength ==
    (last.op = "control" /\ Recognised) =>
        /\ calls[1].len = (IF last.wLength < 2 THEN last.wLength ELSE 2)
        /\ calls[1].buf = "_ctrl_req_buf"
        /\ ctrl_req_buf = <<0, 0>>

C19_Witness ==
    /\ last.op = "control"
    /\ Recognised
    /\ last.wLength = 300
    /\ calls[1].len = 2

\* the transfer submissions of trySend among the calls of the last step
SendSubmissions ==
    {i \in DOMAIN calls : calls[i].fn = "usbd_edpt_xfer" /\ calls[i].buf \in Buffers}

\* C20: with trySend preempted by the stack's callbacks between its read of
\* opened/busy and its submission, trySend never submits a transfer while
\* the driver is closed or on an unbound endpoint, busy implies opened, and
\* at most one outbound transfer is in flight.
C20_SafeUnderPreemption ==
    /\ \A i \in SendSubmissions : calls[i].opened /\ calls[i].ep # 0
    /\ g_busy => g_opened
    /\ Cardinality(SendsInFlight) <= 1

====
